---- MODULE Spec2Model ----
(***************************************************************************)
(* Model of the review-analysis backend: the chunker                       *)
(* (services/chunking.py), the three analysis services and the upload      *)
(* workflow of app.py.                                                     *)
(*                                                                         *)
(* A text is a sequence of one-character strings.  The alphabet is a       *)
(* letter, a sentence terminator, a blank and a newline, which are the     *)
(* character classes the chunker distinguishes.                            *)
(***************************************************************************)
EXTENDS Integers, Sequences, FiniteSets, TLC

VARIABLES
    arg,               \* the arguments of the chunker call under study
    called,            \* whether that call has been made
    ret,               \* the list of chunks the call returned
    stage,             \* the workflow stage of the upload batch
    upload,            \* the uploaded file of the batch
    chunks,            \* upload_file: chunks returned by process_file
    idx,               \* upload_file: loop index i over chunks
    analysis_results,  \* upload_file: the list of chunk results
    trace,             \* per visited chunk, the collaborator outcomes
    summary,           \* upload_file: what generate_summary returned
    response,          \* the HTTP response of the batch
    hash_order,        \* the order in which this interpreter process
                       \* iterates over a set of language codes
    disk,              \* the upload folder: file name -> saved content
    batch              \* concurrent uploads: the state of each request

vars == <<arg, called, ret, stage, upload, chunks, idx, analysis_results,
          trace, summary, response, hash_order, disk, batch>>

-----------------------------------------------------------------------------
(* Bounds of the model. *)

MaxTextLen == 6        \* longest text handed to chunk_text
MaxChunkSize == 3      \* largest chunk_size handed to chunk_text
MaxMinChunkSize == 4   \* largest min_chunk_size handed to chunk_text
MaxFileLen == 6        \* longest plain-text file, in characters
MaxRows == 3           \* most data rows of a CSV file
MaxCsvChunkSize == 9   \* largest chunk_size handed to process_csv_file

(* Program constants. *)

OverlapDivisor == 50   \* the 50 of overlap//50

-----------------------------------------------------------------------------
(* Characters and strings. *)

Whitespace == {" ", "\n"}
Terminators == {"."}
Alphabet == {"a", ".", " "}
FileAlphabet == {"a", " ", "\n"}

Max(a, b) == IF a >= b THEN a ELSE b
Min(a, b) == IF a <= b THEN a ELSE b

\* All sequences over S of length at most n.
SeqsUpTo(S, n) == UNION {[1..k -> S] : k \in 0..n}

\* str.lstrip / str.rstrip / str.strip
RECURSIVE LStrip(_)
LStrip(s) == IF s # <<>> /\ Head(s) \in Whitespace THEN LStrip(Tail(s)) ELSE s

RECURSIVE RStrip(_)
RStrip(s) ==
    IF s # <<>> /\ s[Len(s)] \in Whitespace
    THEN RStrip(SubSeq(s, 1, Len(s) - 1))
    ELSE s

Strip(s) == RStrip(LStrip(s))

\* sep.join(list)
RECURSIVE Join(_, _)
Join(list, sep) ==
    IF list = <<>> THEN <<>>
    ELSE IF Len(list) = 1 THEN list[1]
    ELSE list[1] \o sep \o Join(Tail(list), sep)

\* text.find(sub): the 0-based index of the first occurrence, or -1.
Find(text, sub) ==
    LET hits == {p \in 0..(Len(text) - Len(sub)) :
                    SubSeq(text, p + 1, p + Len(sub)) = sub}
    IN IF hits = {} THEN -1 ELSE CHOOSE p \in hits : \A q \in hits : p <= q

\* list[k:] with Python's treatment of a negative k.
SliceFrom(list, k) ==
    LET from == IF k < 0 THEN Max(Len(list) + k, 0) ELSE Min(k, Len(list))
    IN SubSeq(list, from + 1, Len(list))

\* The first index >= i of text that holds no whitespace (Len + 1 if none).
RECURSIVE SkipWhitespace(_, _)
SkipWhitespace(text, i) ==
    IF i <= Len(text) /\ text[i] \in Whitespace
    THEN SkipWhitespace(text, i + 1)
    ELSE i

\* re.split(r'(?<=[.!?])\s+', text), scanning from index i with the piece
\* cur open: a maximal whitespace run that directly follows a terminator
\* separates two pieces.
RECURSIVE SplitFrom(_, _, _)
SplitFrom(text, i, cur) ==
    IF i > Len(text) THEN <<cur>>
    ELSE IF text[i] \in Whitespace /\ i > 1 /\ text[i - 1] \in Terminators
    THEN <<cur>> \o SplitFrom(text, SkipWhitespace(text, i), <<>>)
    ELSE SplitFrom(text, i + 1, Append(cur, text[i]))

SplitSentences(text) == SplitFrom(text, 1, <<>>)

-----------------------------------------------------------------------------
(* chunk_text: sentence mode. *)

TextChunk(text, chunk_text_, chunk_id, is_last) ==
    [text     |-> chunk_text_,
     chunk_id |-> chunk_id,
     start    |-> Find(text, chunk_text_),
     end      |-> Find(text, chunk_text_) + Len(chunk_text_),
     is_last  |-> is_last]

\* The overlap carried into the next chunk (chunking.py line 68).
OverlapText(current_chunk, overlap) ==
    Join(IF Len(current_chunk) > overlap \div OverlapDivisor
         THEN SliceFrom(current_chunk, (0 - overlap) \div OverlapDivisor)
         ELSE current_chunk, <<" ">>)

\* One iteration of the loop over sentences; st is the loop state.
SentenceStep(st, raw, text, chunk_size, overlap) ==
    LET sentence == Strip(raw) IN
    IF sentence = <<>> THEN st
    ELSE IF st.current_length + Len(sentence) > chunk_size
            /\ st.current_chunk # <<>>
    THEN LET chunk_text_ == Join(st.current_chunk, <<" ">>)
             overlap_text == OverlapText(st.current_chunk, overlap)
             next_chunk == IF overlap_text # sentence
                           THEN <<overlap_text, sentence>>
                           ELSE <<sentence>>
         IN [chunks |-> Append(st.chunks,
                               TextChunk(text, chunk_text_, st.chunk_id, FALSE)),
             chunk_id |-> st.chunk_id + 1,
             current_chunk |-> next_chunk,
             current_length |-> Len(Join(next_chunk, <<" ">>))]
    ELSE [st EXCEPT !.current_chunk = Append(@, sentence),
                    !.current_length = @ + Len(sentence) + 1]

RECURSIVE SentenceLoop(_, _, _, _, _)
SentenceLoop(st, sentences, text, chunk_size, overlap) ==
    IF sentences = <<>> THEN st
    ELSE SentenceLoop(SentenceStep(st, Head(sentences), text, chunk_size, overlap),
                      Tail(sentences), text, chunk_size, overlap)

\* Lines 75-85: the final running chunk.
FlushLast(st, text, min_chunk_size) ==
    LET chunk_text_ == Join(st.current_chunk, <<" ">>) IN
    IF st.current_chunk # <<>> /\ Len(chunk_text_) >= min_chunk_size
    THEN Append(st.chunks, TextChunk(text, chunk_text_, st.chunk_id, TRUE))
    ELSE st.chunks

\* Lines 87-89: chunks[-1]['is_last'] = True.
MarkLast(cs) ==
    IF cs = <<>> THEN cs ELSE [cs EXCEPT ![Len(cs)].is_last = TRUE]

\* chunk_text without line 31, the strip of the input.
chunk_text_unstripped(raw_text, chunk_size, overlap, min_chunk_size) ==
    LET text == raw_text IN
    IF Strip(text) = <<>> THEN <<>>
    ELSE IF Len(text) <= chunk_size
    THEN << [text |-> text, chunk_id |-> 0, start |-> 0, end |-> Len(text),
             is_last |-> TRUE] >>
    ELSE LET st0 == [chunks |-> <<>>, chunk_id |-> 0,
                     current_chunk |-> <<>>, current_length |-> 0]
             st == SentenceLoop(st0, SplitSentences(text), text, chunk_size,
                                overlap)
         IN MarkLast(FlushLast(st, text, min_chunk_size))

chunk_text(raw_text, chunk_size, overlap, min_chunk_size) ==
    LET text == Strip(raw_text) IN
    IF text = <<>> THEN <<>>
    ELSE IF Len(text) <= chunk_size
    THEN << [text |-> text, chunk_id |-> 0, start |-> 0, end |-> Len(text),
             is_last |-> TRUE] >>
    ELSE LET st0 == [chunks |-> <<>>, chunk_id |-> 0,
                     current_chunk |-> <<>>, current_length |-> 0]
             st == SentenceLoop(st0, SplitSentences(text), text, chunk_size,
                                overlap)
         IN MarkLast(FlushLast(st, text, min_chunk_size))

-----------------------------------------------------------------------------
(* process_text_file: line mode. *)

\* f.readlines(): the lines of the file, each with its newline.
RECURSIVE ReadLinesFrom(_, _)
ReadLinesFrom(content, cur) ==
    IF content = <<>> THEN (IF cur = <<>> THEN <<>> ELSE <<cur>>)
    ELSE IF Head(content) = "\n"
    THEN <<Append(cur, "\n")>> \o ReadLinesFrom(Tail(content), <<>>)
    ELSE ReadLinesFrom(Tail(content), Append(cur, Head(content)))

ReadLines(content) == ReadLinesFrom(content, <<>>)

\* The chunk of line i (0-based) of lines, whose stripped text is line.
LineChunk(lines, i, line) ==
    [text        |-> line,
     chunk_id    |-> i,
     start       |-> 0,
     end         |-> Len(line),
     is_last     |-> (i = Len(lines) - 1),
     line_number |-> i + 1]

RECURSIVE LineLoop(_, _, _)
LineLoop(lines, i, acc) ==
    IF i >= Len(lines) THEN acc
    ELSE LET line == Strip(lines[i + 1]) IN
         LineLoop(lines, i + 1,
                  IF line # <<>> THEN Append(acc, LineChunk(lines, i, line))
                  ELSE acc)

\* process_text_file as if it cut the file by size, as chunk_text does.
process_text_file_by_size(content, chunk_size, overlap) ==
    chunk_text(content, chunk_size, overlap, 0)

\* process_text_file(file_path, chunk_size, overlap): neither chunk_size
\* nor overlap is read.
process_text_file(content, chunk_size, overlap) ==
    LineLoop(ReadLines(content), 0, <<>>)

-----------------------------------------------------------------------------
(* process_csv_file: CSV mode.  A CSV file is the header list and the data *)
(* rows csv.DictReader yields, each row a list of values aligned with the  *)
(* headers.                                                                *)

\* ', '.join(f"{k}: {v}" for k, v in row.items())
RECURSIVE RowFields(_, _)
RowFields(headers, row) ==
    IF headers = <<>> THEN <<>>
    ELSE <<Head(headers) \o <<":", " ">> \o Head(row)>>
         \o RowFields(Tail(headers), Tail(row))

RowText(headers, row) == Join(RowFields(headers, row), <<",", " ">>)

CsvChunk(current_chunk, chunk_id, start_row, end_row, is_last, headers) ==
    [text      |-> Join(current_chunk, <<"\n">>),
     chunk_id  |-> chunk_id,
     start_row |-> start_row,
     end_row   |-> end_row,
     is_last   |-> is_last,
     format    |-> "csv",
     headers   |-> headers]

\* One iteration of the loop over rows; i is the 0-based row index.
RowStep(st, i, row_text, chunk_size, headers) ==
    IF st.current_length + Len(row_text) > chunk_size /\ st.current_chunk # <<>>
    THEN [chunks |-> Append(st.chunks,
                            CsvChunk(st.current_chunk, st.chunk_id,
                                     i - Len(st.current_chunk), i - 1, FALSE,
                                     headers)),
          chunk_id |-> st.chunk_id + 1,
          current_chunk |-> <<row_text>>,
          current_length |-> Len(row_text)]
    ELSE [st EXCEPT !.current_chunk = Append(@, row_text),
                    !.current_length = @ + Len(row_text) + 1]

RECURSIVE RowLoop(_, _, _, _)
RowLoop(st, i, csv, chunk_size) ==
    IF i >= Len(csv.rows) THEN st
    ELSE RowLoop(RowStep(st, i, RowText(csv.headers, csv.rows[i + 1]),
                         chunk_size, csv.headers),
                 i + 1, csv, chunk_size)

\* FlushRows with the first row of the last chunk off by one.
FlushRows_off_by_one(st, i, headers) ==
    IF st.current_chunk # <<>>
    THEN Append(st.chunks,
                CsvChunk(st.current_chunk, st.chunk_id,
                         i - Len(st.current_chunk), i, TRUE, headers))
    ELSE st.chunks

\* Lines 183-194: the last chunk; i is the index of the last row read.
FlushRows(st, i, headers) ==
    IF st.current_chunk # <<>>
    THEN Append(st.chunks,
                CsvChunk(st.current_chunk, st.chunk_id,
                         (i + 1) - Len(st.current_chunk), i, TRUE, headers))
    ELSE st.chunks

\* process_csv_file(file_path, chunk_size, overlap): overlap is not read.
process_csv_file(csv, chunk_size, overlap) ==
    LET st0 == [chunks |-> <<>>, chunk_id |-> 0,
                current_chunk |-> <<>>, current_length |-> 0]
    IN FlushRows(RowLoop(st0, 0, csv, chunk_size), Len(csv.rows) - 1,
                 csv.headers)

-----------------------------------------------------------------------------
(* process_json_file: JSON mode.  A JSON object is the list of its members, *)
(* each a <<key, value>> pair of texts; a document is an array of objects  *)
(* or a single object.                                                     *)

DefaultMinChunkSize == 50   \* chunk_text(..., min_chunk_size=50)

JsonQuote(t) == <<"\"">> \o t \o <<"\"">>

JsonMembers(object) ==
    [k \in 1..Len(object) |->
        JsonQuote(object[k][1]) \o <<":", " ">> \o JsonQuote(object[k][2])]

\* json.dumps(item, ensure_ascii=False)
JsonDumps(object) == <<"{">> \o Join(JsonMembers(object), <<",", " ">>) \o <<"}">>

\* json.dumps(data, ensure_ascii=False, indent=2)
JsonDumpsIndented(object) ==
    IF object = <<>> THEN <<"{", "}">>
    ELSE <<"{", "\n">>
         \o Join([k \in 1..Len(object) |-> <<" ", " ">> \o JsonMembers(object)[k]],
                 <<",", "\n">>)
         \o <<"\n", "}">>

JsonArray(items) == [is_list |-> TRUE, items |-> items]
JsonObject(object) == [is_list |-> FALSE, object |-> object]

\* Lines 210-216: the text representation of the document.
TextContent(data) ==
    IF data.is_list
    THEN Join([k \in 1..Len(data.items) |-> JsonDumps(data.items[k])], <<"\n">>)
    ELSE JsonDumpsIndented(data.object)

\* process_json_file(file_path, chunk_size, overlap) on a document json.load
\* accepts.
process_json_file(data, chunk_size, overlap) ==
    chunk_text(TextContent(data), chunk_size, overlap, DefaultMinChunkSize)

-----------------------------------------------------------------------------
(* Calls and exceptions.  A call of a modelled function yields a record:   *)
(* raised = TRUE is an exception leaving the function, otherwise value is  *)
(* what it returned.  None is Python's None.                               *)

Returned(v) == [raised |-> FALSE, value |-> v]
Raised == [raised |-> TRUE]
None == "None"

\* dict.get(key, default) on a record.
Get(dict, key, default) == IF key \in DOMAIN dict THEN dict[key] ELSE default

\* str.lower() on a language code.
Lower(code) ==
    CASE code = "EN" -> "en"
      [] code = "ES" -> "es"
      [] code = "AUTO" -> "auto"
      [] OTHER -> code

-----------------------------------------------------------------------------
(* services/language.py *)

Letters == {"a", "e", "g", "i", "l", "n", "r", "s", "t", "u", "x", "y"}

\* text.split(): the maximal runs of characters other than whitespace, in
\* order.  A word starts where such a character opens the text or follows
\* whitespace and ends where one closes the text or precedes whitespace;
\* the k-th word runs from the k-th start to the k-th end.
Words(text) ==
    LET positions == [p \in 1..Len(text) |-> p]
        IsStart(p) == /\ text[p] \notin Whitespace
                      /\ (p = 1 \/ text[p - 1] \in Whitespace)
        IsEnd(p) == /\ text[p] \notin Whitespace
                    /\ (p = Len(text) \/ text[p + 1] \in Whitespace)
        starts == SelectSeq(positions, IsStart)
        ends == SelectSeq(positions, IsEnd)
    IN [k \in 1..Len(starts) |-> SubSeq(text, starts[k], ends[k])]

\* clean_text: every character that is neither a letter nor whitespace
\* becomes a blank, then runs of whitespace collapse to one blank.
clean_text(text) ==
    LET blanked == [k \in 1..Len(text) |->
                       IF text[k] \in Letters \cup Whitespace THEN text[k]
                       ELSE " "]
    IN Strip(Join(Words(blanked), <<" ">>))

\* Whether detect_language reaches langdetect's detect (line 59).
DetectInvoked(text) == Strip(text) # <<>> /\ Strip(clean_text(text)) # <<>>

\* detect_language without its except clauses (lines 62-67).
detect_language_uncaught(text, detect) ==
    IF ~DetectInvoked(text) THEN Returned("en")
    ELSE IF detect.raised THEN Raised
    ELSE Returned(Lower(detect.value))

\* detect_language(text, default='en'); detect is the outcome of
\* langdetect's detect, were it called.
detect_language(text, detect) ==
    IF ~DetectInvoked(text) THEN Returned("en")
    ELSE IF detect.raised THEN Returned("en")
    ELSE Returned(Lower(detect.value))

-----------------------------------------------------------------------------
(* services/translation.py *)

\* translate_text answering a failed translation without the error field.
translate_text_no_error_field(text, target_lang, source_lang, translate) ==
    Returned([original_text |-> text,
              translated_text |-> IF translate.raised \/ translate.value = <<>>
                                  THEN text ELSE translate.value,
              source_lang |-> source_lang,
              target_lang |-> target_lang])

\* translate_text(text, target_lang, source_lang); translate is the outcome
\* of GoogleTranslator(...).translate(text): an exception or the translated
\* text, <<>> when it is empty or None.
translate_text(text, target_lang, source_lang, translate) ==
    IF Strip(text) = <<>>
    THEN Returned([error |-> "Text cannot be empty", original_text |-> text,
                   translated_text |-> text, source_lang |-> source_lang,
                   target_lang |-> target_lang])
    ELSE IF translate.raised
    THEN Returned([error |-> "Translation failed", original_text |-> text,
                   translated_text |-> text, source_lang |-> source_lang,
                   target_lang |-> target_lang])
    ELSE Returned([original_text |-> text,
                   translated_text |-> IF translate.value = <<>>
                                       THEN text ELSE translate.value,
                   source_lang |-> source_lang,
                   target_lang |-> target_lang])

-----------------------------------------------------------------------------
(* services/sentiment.py.  Polarity, subjectivity and score are fixed-point *)
(* numbers with four decimals: Scale stands for 1.0.  The polarities the   *)
(* model draws are even, so that the score (polarity + 1) / 2 is exact.    *)

Scale == 10000
PolarityThreshold == 1000   \* 0.1

\* analyze_sentiment without its except clause (lines 60-70).
analyze_sentiment_uncaught(text, language, blob) ==
    IF blob.raised THEN Raised
    ELSE LET polarity == blob.value.polarity IN
         Returned([sentiment |-> IF polarity > PolarityThreshold THEN "positive"
                                 ELSE IF polarity < 0 - PolarityThreshold
                                 THEN "negative" ELSE "neutral",
                   score |-> (polarity + Scale) \div 2,
                   polarity |-> polarity,
                   subjectivity |-> blob.value.subjectivity,
                   language |-> language,
                   word_count |-> Len(Words(text)),
                   char_count |-> Len(text)])

\* analyze_sentiment(text, language) with language = 'en'; blob is the
\* outcome of TextBlob(text).sentiment.
analyze_sentiment(text, language, blob) ==
    IF blob.raised
    THEN Returned([sentiment |-> "neutral", score |-> Scale \div 2,
                   polarity |-> 0, subjectivity |-> Scale \div 2,
                   language |-> language, error |-> "TextBlob failed"])
    ELSE LET polarity == blob.value.polarity IN
         Returned([sentiment |-> IF polarity > PolarityThreshold THEN "positive"
                                 ELSE IF polarity < 0 - PolarityThreshold
                                 THEN "negative" ELSE "neutral",
                   score |-> (polarity + Scale) \div 2,
                   polarity |-> polarity,
                   subjectivity |-> blob.value.subjectivity,
                   language |-> language,
                   word_count |-> Len(Words(text)),
                   char_count |-> Len(text)])

-----------------------------------------------------------------------------
(* services/ollama_integration.py *)

\* A JSON value the model's insight service may answer with.
JsonDict(d) == [type |-> "dict", dict |-> d]
JsonList(l) == [type |-> "list", items |-> l]
JsonString(mentions_error) ==
    [type |-> "string", mentions_error |-> mentions_error]
JsonNumber == [type |-> "number"]
NotJson == [type |-> "text"]
NoMessage == [type |-> "none"]
EmptyContent == [type |-> "empty"]
EmptyDict == JsonDict(<<>>)

\* Python's truth value of an insight answer kept in ollama_insights.
Truthy(v) ==
    CASE v.type = "dict" -> DOMAIN v.dict # {}
      [] v.type = "list" -> v.items # <<>>
      [] v.type = "string" -> TRUE
      [] OTHER -> TRUE

\* analyze_with_ollama; chat is the outcome of OLLAMA_CLIENT.chat: an
\* exception, a response without message content (NoMessage), or the parse
\* of the content (EmptyContent for an empty content, NotJson for text
\* json.loads rejects).
analyze_with_ollama(chat) ==
    IF chat.raised THEN Returned(JsonDict([error |-> "Failed to analyze text"]))
    ELSE IF chat.value = NoMessage
    THEN Returned(JsonDict([error |-> "No response from Ollama API"]))
    ELSE IF chat.value = EmptyContent
    THEN Returned(JsonDict([error |-> "Empty response from Ollama API"]))
    ELSE IF chat.value = NotJson
    THEN Returned(JsonDict([analysis |-> "text"]))
    ELSE Returned(chat.value)

-----------------------------------------------------------------------------
(* app.py: generate_summary *)

SampleCap == 10       \* at most 10 sample reviews
ExcerptCap == 200     \* each capped to 200 characters
TopTopics == 10       \* most_common(10)
TopInsights == 3      \* key_insights[:3]
TopicsInLine == 5     \* common_topics[:5]

\* The quotient cut off instead of rounded, as int() does.
RoundDown(num, den) == num \div den

\* round(num / den) to the nearest integer, halves to the even one.  (On
\* an exact decimal half of the average score Python rounds the binary
\* float, which lies just above or below the half.)
RoundHalfEven(num, den) ==
    LET q == num \div den
        r == num % den
    IN IF 2 * r < den THEN q
       ELSE IF 2 * r > den THEN q + 1
       ELSE IF q % 2 = 0 THEN q ELSE q + 1

RECURSIVE SumSeq(_)
SumSeq(xs) == IF xs = <<>> THEN 0 ELSE Head(xs) + SumSeq(Tail(xs))

CountWhere(xs, P(_)) == Cardinality({k \in 1..Len(xs) : P(xs[k])})

\* TopicsOf reading all three fields of the result.
TopicsOf_reading_all(result) ==
    LET own == Get(result, "topics", <<>>)
        advanced == Get(Get(result, "advanced_analysis", [none |-> 0]),
                        "topics", <<>>)
        analysis == Get(Get(result, "analysis", [none |-> 0]), "topics", <<>>)
    IN own \o advanced \o analysis

\* The topics of one result (lines 319-327): the topics field, or failing
\* that advanced_analysis.topics, followed by analysis.topics.
TopicsOf(result) ==
    LET own == Get(result, "topics", <<>>)
        advanced == Get(Get(result, "advanced_analysis", [none |-> 0]),
                        "topics", <<>>)
        analysis == Get(Get(result, "analysis", [none |-> 0]), "topics", <<>>)
    IN (IF own # <<>> THEN own ELSE advanced) \o analysis

RECURSIVE AllTopics(_)
AllTopics(results) ==
    IF results = <<>> THEN <<>>
    ELSE TopicsOf(Head(results)) \o AllTopics(Tail(results))

\* Counter(all_topics).most_common(n): by descending count, ties in
\* first-seen order.
MostCommon(all_topics, n) ==
    LET topics == {all_topics[k] : k \in 1..Len(all_topics)}
        count(t) == Cardinality({k \in 1..Len(all_topics) : all_topics[k] = t})
        first(t) == CHOOSE k \in 1..Len(all_topics) :
                        /\ all_topics[k] = t
                        /\ \A j \in 1..(k - 1) : all_topics[j] # t
        before(t, u) == \/ count(t) > count(u)
                        \/ count(t) = count(u) /\ first(t) < first(u)
        rank(t) == Cardinality({u \in topics : before(u, t)}) + 1
        kept == Min(n, Cardinality(topics))
    IN [k \in 1..kept |-> CHOOSE t \in topics : rank(t) = k]

\* The sample handed to the insight service (lines 365-371).
RECURSIVE SampleFrom(_, _, _, _)
SampleFrom(results, i, step, acc) ==
    IF i >= Len(results) THEN acc
    ELSE SampleFrom(results, i + step, step,
                    IF Len(acc) < SampleCap
                    THEN Append(acc, SubSeq(results[i + 1].processed_text, 1,
                                            Min(ExcerptCap,
                                                Len(results[i + 1].processed_text))))
                    ELSE acc)

SampleText(results) ==
    Join(SampleFrom(results, 0, Max(1, Len(results) \div SampleCap), <<>>),
         <<"\n", "\n">>)

\* Lines 381-390: what the answer of the insight service leaves in
\* ollama_insights and adds to the insight lines.  An exception raised
\* here is caught at line 389; ollama_insights keeps what was assigned.
Augmentation(answer) ==
    IF answer.raised THEN [ollama_insights |-> EmptyDict, lines |-> <<>>]
    ELSE LET r == answer.value IN
         CASE r.type = "dict" ->
                IF "error" \in DOMAIN r.dict
                THEN [ollama_insights |-> EmptyDict, lines |-> <<>>]
                ELSE [ollama_insights |-> r,
                      lines |-> LET ki == Get(r.dict, "key_insights", <<>>)
                                IN SubSeq(ki, 1, Min(TopInsights, Len(ki)))]
           [] r.type = "list" ->
                IF \E k \in 1..Len(r.items) : r.items[k] = "error"
                THEN [ollama_insights |-> EmptyDict, lines |-> <<>>]
                ELSE [ollama_insights |-> r, lines |-> <<>>]
           [] r.type = "string" ->
                IF r.mentions_error
                THEN [ollama_insights |-> EmptyDict, lines |-> <<>>]
                ELSE [ollama_insights |-> r, lines |-> <<>>]
           [] OTHER -> [ollama_insights |-> EmptyDict, lines |-> <<>>]

\* list(set(codes)) (lines 274 and 336): the codes of the set in the order
\* the interpreter process iterates over them, which follows the hashes of
\* the strings; these are salted anew for every process.
Languages == {"en", "es"}
HashOrders == {<<"en", "es">>, <<"es", "en">>}

ListOfSet(codes, order) ==
    LET Member(c) == c \in codes IN SelectSeq(order, Member)

\* The summary of an empty batch without its insight line.
EmptySummary_without_insight ==
    [total_reviews_analyzed |-> 0,
     average_sentiment_score |-> 0,
     sentiment_distribution |-> [positive |-> 0, neutral |-> 0, negative |-> 0],
     common_topics |-> <<>>,
     key_insights |-> <<>>,
     languages_detected |-> <<>>,
     translations_performed |-> 0]

\* Lines 296-304.
EmptySummary ==
    [total_reviews_analyzed |-> 0,
     average_sentiment_score |-> 0,
     sentiment_distribution |-> [positive |-> 0, neutral |-> 0, negative |-> 0],
     common_topics |-> <<>>,
     key_insights |-> << <<"No reviews to analyze">> >>,
     languages_detected |-> <<>>,
     translations_performed |-> 0]

\* generate_summary(analysis_results); chat is the outcome of the insight
\* service's chat call and order the iteration order of the process over
\* language codes.  Percentages are in tenths of a percent, the average
\* score in thousandths.
generate_summary(results, chat, order) ==
    IF Len(results) = 0 THEN EmptySummary
    ELSE
    LET total == Len(results)
        score_sum == SumSeq([k \in 1..total |->
                                Get(results[k], "sentiment_score", Scale \div 2)])
        label(r) == Lower(Get(r, "sentiment", "neutral"))
        IsPositive(r) == label(r) = "positive"
        IsNeutral(r) == label(r) = "neutral"
        IsNegative(r) == label(r) = "negative"
        IsTranslated(r) == Get(r, "was_translated", FALSE)
        counts == [positive |-> CountWhere(results, IsPositive),
                   neutral |-> CountWhere(results, IsNeutral),
                   negative |-> CountWhere(results, IsNegative)]
        common_topics == MostCommon(AllTopics(results), TopTopics)
        languages ==
            ListOfSet({Get(results[k], "detected_language", "en") : k \in 1..total},
                      order)
        translations == CountWhere(results, IsTranslated)
        pct == [positive |-> RoundHalfEven(counts.positive * 1000, total),
                neutral |-> RoundHalfEven(counts.neutral * 1000, total),
                negative |-> RoundHalfEven(counts.negative * 1000, total)]
        aug == Augmentation(analyze_with_ollama(chat))
        insights ==
            << <<"Analyzed", total, RoundHalfEven(score_sum, total * 100)>>,
               <<"Sentiment breakdown", pct.positive, pct.neutral, pct.negative>> >>
            \o (IF Len(languages) > 1
                THEN << <<"Languages detected", languages>> >> ELSE <<>>)
            \o (IF translations > 0
                THEN << <<"Performed translations", translations>> >> ELSE <<>>)
            \o (IF common_topics # <<>>
                THEN << <<"Top topics",
                          SubSeq(common_topics, 1,
                                 Min(TopicsInLine, Len(common_topics)))>> >>
                ELSE << <<"No specific topics identified">> >>)
            \o [k \in 1..Len(aug.lines) |-> <<"AI", aug.lines[k]>>]
    IN [total_reviews_analyzed |-> total,
        average_sentiment_score |-> RoundHalfEven(score_sum, total * 10),
        sentiment_distribution |-> counts,
        sentiment_percentages |-> pct,
        common_topics |-> common_topics,
        languages_detected |-> languages,
        translations_performed |-> translations,
        key_insights |-> insights,
        ollama_insights |-> aug.ollama_insights,
        workflow_steps_completed |->
            <<"File uploaded and chunked",
              "Language detection performed",
              IF translations > 0 THEN "translations completed"
              ELSE "No translations needed",
              "Sentiment analysis completed",
              "Summary generated",
              IF Truthy(aug.ollama_insights) THEN "AI insights generated"
              ELSE "Basic insights provided">>]

-----------------------------------------------------------------------------
(* app.py: upload_file, from the submitted file to the response.           *)

DefaultChunkSize == 1000   \* process_file(file_path, chunk_size=1000, ...)
DefaultOverlap == 100      \* process_file(..., overlap=100)

NoSummary == [total_reviews_analyzed |-> -1]
NoResponse == [status |-> "none"]

\* The extensions the upload route admits (line 32), with their dot.
ALLOWED_EXTENSIONS == {".csv", ".txt"}

\* allowed_file(filename), on the suffix of the file name.
allowed_file(file) == file.suffix \in ALLOWED_EXTENSIONS

\* What json.load raises on.
MalformedJson == [malformed |-> TRUE]

\* process_file(filepath): dispatch on the suffix of the file name.  Opening
\* or decoding a file that cannot be read raises, and so does parsing a
\* malformed JSON document.
process_file(file) ==
    IF ~file.readable THEN Raised
    ELSE IF file.suffix = ".csv"
    THEN Returned(process_csv_file(file.csv, DefaultChunkSize, DefaultOverlap))
    ELSE IF file.suffix = ".json"
    THEN (IF file.json = MalformedJson THEN Raised
          ELSE Returned(process_json_file(file.json, DefaultChunkSize,
                                          DefaultOverlap)))
    ELSE Returned(process_text_file(file.content, DefaultChunkSize,
                                    DefaultOverlap))

\* ResolveLanguage reading the language field as it is written.
ResolveLanguage_case_sensitive(chunk, chunk_text_, detect) ==
    LET hint == Get(chunk, "language", "") IN
    IF hint = "" \/ hint = "auto" THEN detect_language(chunk_text_, detect)
    ELSE Returned(hint)

\* Lines 205-209: the language of a chunk.
ResolveLanguage(chunk, chunk_text_, detect) ==
    LET hint == Lower(Get(chunk, "language", "")) IN
    IF hint = "" \/ hint = "auto" THEN detect_language(chunk_text_, detect)
    ELSE Returned(hint)

\* TranslateStep taking every answer of translate_text for a translation.
TranslateStep_ignoring_error(chunk_text_, detected_language, translation) ==
    IF detected_language = "en" THEN <<chunk_text_, FALSE>>
    ELSE IF translation.raised THEN <<chunk_text_, FALSE>>
    ELSE <<translation.value.translated_text, TRUE>>

\* Lines 213-228: the translation step, as <<translated_text,
\* was_translated>>; an exception of translate_text is caught at line 227.
TranslateStep(chunk_text_, detected_language, translation) ==
    IF detected_language = "en" THEN <<chunk_text_, FALSE>>
    ELSE IF translation.raised THEN <<chunk_text_, FALSE>>
    ELSE IF "error" \notin DOMAIN translation.value
    THEN <<translation.value.translated_text, TRUE>>
    ELSE <<chunk_text_, FALSE>>

\* ServiceCalls scoring the chunk text as uploaded.
ServiceCalls_scoring_original(chunk, chunk_text_, detected_language, step) ==
    (IF Lower(Get(chunk, "language", "")) \in {"", "auto"}
     THEN << [fn |-> "detect_language", text |-> chunk_text_] >>
     ELSE <<>>)
    \o (IF detected_language # "en"
        THEN << [fn |-> "translate_text", text |-> chunk_text_,
                 target_lang |-> "en", source_lang |-> detected_language] >>
        ELSE <<>>)
    \o << [fn |-> "analyze_sentiment", text |-> chunk_text_, language |-> "en"] >>

\* Lines 205-234: the calls of the three services the loop body makes for
\* a chunk, in the order of the statements that make them: detect_language
\* at line 209, translate_text at line 220, analyze_sentiment at line 234.
ServiceCalls(chunk, chunk_text_, detected_language, step) ==
    (IF Lower(Get(chunk, "language", "")) \in {"", "auto"}
     THEN << [fn |-> "detect_language", text |-> chunk_text_] >>
     ELSE <<>>)
    \o (IF detected_language # "en"
        THEN << [fn |-> "translate_text", text |-> chunk_text_,
                 target_lang |-> "en", source_lang |-> detected_language] >>
        ELSE <<>>)
    \o << [fn |-> "analyze_sentiment", text |-> step[1], language |-> "en"] >>

\* ChunkResult numbering the result by the chunk's line number.
ChunkResult_line_number(chunk, original_text, step, detected_language, sentiment_result) ==
    [chunk_id          |-> Get(chunk, "line_number", chunk.chunk_id + 1),
     original_text     |-> original_text,
     processed_text    |-> step[1],
     detected_language |-> detected_language,
     was_translated    |-> step[2],
     sentiment         |-> Get(sentiment_result, "sentiment", None),
     sentiment_score   |-> Get(sentiment_result, "score", None),
     polarity          |-> Get(sentiment_result, "polarity", None),
     subjectivity      |-> Get(sentiment_result, "subjectivity", None),
     confidence        |-> Get(sentiment_result, "confidence", None),
     rating            |-> Get(chunk, "rating", None),
     date              |-> Get(chunk, "date", None),
     analysis          |-> sentiment_result]

\* Lines 237-251: the result of one chunk.
ChunkResult(chunk, original_text, step, detected_language, sentiment_result) ==
    [chunk_id          |-> chunk.chunk_id,
     original_text     |-> original_text,
     processed_text    |-> step[1],
     detected_language |-> detected_language,
     was_translated    |-> step[2],
     sentiment         |-> Get(sentiment_result, "sentiment", None),
     sentiment_score   |-> Get(sentiment_result, "score", None),
     polarity          |-> Get(sentiment_result, "polarity", None),
     subjectivity      |-> Get(sentiment_result, "subjectivity", None),
     confidence        |-> Get(sentiment_result, "confidence", None),
     rating            |-> Get(chunk, "rating", None),
     date              |-> Get(chunk, "date", None),
     analysis          |-> sentiment_result]

\* Lines 281-283: any exception after the file was saved.
FailedResponse == [status |-> "error", code |-> 500]

\* Line 285: the file name has no admitted extension.
RejectedResponse == [status |-> "error", code |-> 400]

\* SuccessResponse counting the chunks a translation was attempted for.
SuccessResponse_counts_attempts(results, summary_, order) ==
    [status |-> "success",
     code |-> 200,
     total_chunks |-> Len(results),
     analysis_results |-> results,
     summary |-> summary_,
     workflow_completed |-> TRUE,
     languages_detected |->
         ListOfSet({results[k].detected_language : k \in 1..Len(results)}, order),
     translations_performed |->
         Cardinality({k \in 1..Len(results) : results[k].detected_language # "en"})]

\* Lines 267-279.
SuccessResponse(results, summary_, order) ==
    [status |-> "success",
     code |-> 200,
     total_chunks |-> Len(results),
     analysis_results |-> results,
     summary |-> summary_,
     workflow_completed |-> TRUE,
     languages_detected |->
         ListOfSet({results[k].detected_language : k \in 1..Len(results)}, order),
     translations_performed |->
         Cardinality({k \in 1..Len(results) : results[k].was_translated})]

\* What the collaborators may answer.
DetectOutcomes == {Returned("en"), Returned("es"), Raised}
TranslateOutcomes == {Returned(<<"e">>), Returned(<<>>), Raised}
BlobOutcomes ==
    {Returned([polarity |-> Scale \div 2, subjectivity |-> Scale \div 2]),
     Returned([polarity |-> 0 - Scale \div 2, subjectivity |-> Scale]),
     Raised}
ChatOutcomes ==
    {Raised, Returned(NoMessage), Returned(EmptyContent), Returned(NotJson),
     Returned(JsonDict([overall_sentiment |-> "mixed",
                        key_insights |-> <<"i1", "i2", "i3", "i4">>])),
     Returned(JsonDict([overall_sentiment |-> "mixed"])),
     Returned(JsonList(<<"i1">>))}
NotCalled == [raised |-> FALSE, not_called |-> TRUE]

Outcome(call) ==
    IF "not_called" \in DOMAIN call THEN "not called"
    ELSE IF call.raised THEN "raised" ELSE "returned"

MaxUploadLen == 3     \* longest uploaded plain-text file, in characters
MaxUploadRows == 3    \* most data rows of an uploaded CSV file

\* The columns of an uploaded CSV file: the review text alone, or the
\* review text with a language, a rating and a date column.
ReviewColumn == <<"r">>
LanguageColumn == <<"l", "a", "n", "g", "u", "a", "g", "e">>
RatingColumn == <<"r", "a", "t", "i", "n", "g">>
DateColumn == <<"d", "a", "t", "e">>
AnnotatedHeaders == <<ReviewColumn, LanguageColumn, RatingColumn, DateColumn>>

\* Rows of the two kinds of file.  The review x is written in English and
\* the review y in Spanish.
PlainRows == [1..1 -> {<<"x">>, <<"y">>}]
AnnotatedRows ==
    {<< <<"x">>, <<"e", "n">>, <<"5">>, <<"1">> >>,
     << <<"y">>, <<"e", "s">>, <<"1">>, <<"2">> >>}

\* The JSON object of one review.
ReviewObject(review) == << <<ReviewColumn, review>> >>

JsonUploads ==
    {JsonArray(<<ReviewObject(<<"x">>), ReviewObject(<<"y">>)>>),
     JsonObject(ReviewObject(<<"y">>)),
     MalformedJson}

Uploads ==
    [suffix : {".txt"}, readable : {TRUE},
     content : SeqsUpTo(FileAlphabet, MaxUploadLen)]
    \cup [suffix : {".csv"}, readable : {TRUE},
          csv : [headers : {<<ReviewColumn>>},
                 rows : SeqsUpTo(PlainRows, MaxUploadRows)]]
    \cup [suffix : {".csv"}, readable : {TRUE},
          csv : [headers : {AnnotatedHeaders},
                 rows : SeqsUpTo(AnnotatedRows, MaxUploadRows)]]
    \cup [suffix : {".json"}, readable : {TRUE}, json : JsonUploads]
    \cup [suffix : {".pdf"}, readable : {TRUE}]
    \cup [suffix : {".txt", ".csv"}, readable : {FALSE}]

\* No concurrent request is studied while one batch is followed.
NoDisk == <<>>
NoBatch == <<>>

Init ==
    /\ arg = [fn |-> "upload_file"]
    /\ called = FALSE
    /\ ret = <<>>
    /\ stage = "Submitted"
    /\ upload \in Uploads
    /\ chunks = <<>>
    /\ idx = 0
    /\ analysis_results = <<>>
    /\ trace = <<>>
    /\ summary = NoSummary
    /\ response = NoResponse
    /\ hash_order \in HashOrders
    /\ disk = NoDisk
    /\ batch = NoBatch

\* Lines 179-186 and 285: a file whose name has an admitted extension is
\* saved; any other is answered with status 400.
ReceiveFile ==
    /\ stage = "Submitted"
    /\ IF allowed_file(upload)
       THEN /\ stage' = "Received"
            /\ UNCHANGED response
       ELSE /\ stage' = "Rejected"
            /\ response' = RejectedResponse
    /\ UNCHANGED <<arg, called, ret, upload, chunks, idx, analysis_results, trace,
                   summary, hash_order, disk, batch>>

\* ChunkFile entering the loop over the chunks although there is none to
\* take.
ChunkFile_awaiting_chunks ==
    /\ stage = "Received"
    /\ LET got == process_file(upload) IN
       IF got.raised
       THEN /\ stage' = "Failed"
            /\ response' = FailedResponse
            /\ UNCHANGED chunks
       ELSE /\ chunks' = got.value
            /\ stage' = "Chunked"
            /\ UNCHANGED response
    /\ UNCHANGED <<arg, called, ret, upload, idx, analysis_results, trace, summary,
                   hash_order, disk, batch>>

\* Lines 189-196: chunk the file; an exception ends the batch.
ChunkFile ==
    /\ stage = "Received"
    /\ LET got == process_file(upload) IN
       IF got.raised
       THEN /\ stage' = "Failed"
            /\ response' = FailedResponse
            /\ UNCHANGED chunks
       ELSE /\ chunks' = got.value
            /\ stage' = IF got.value = <<>> THEN "PerChunkProcessed" ELSE "Chunked"
            /\ UNCHANGED response
    /\ UNCHANGED <<arg, called, ret, upload, idx, analysis_results, trace, summary,
                   hash_order, disk, batch>>

\* Lines 198-254: one iteration of the loop over chunks.  detect, translate
\* and blob are what langdetect, the translator and TextBlob answer when
\* they are called; language, step and sentiment are the local variables
\* detected_language, (translated_text, was_translated) and
\* sentiment_result of the loop body.
ProcessChunkWith(detect, translate, blob) ==
    LET chunk == chunks[idx + 1]
        chunk_text_ == chunk.text
        after == IF idx + 1 = Len(chunks) THEN "PerChunkProcessed" ELSE "Chunked"
    IN
    IF Strip(chunk_text_) = <<>>
    THEN /\ stage' = after
         /\ idx' = idx + 1
         /\ trace' = Append(trace, [chunk_id |-> chunk.chunk_id, skipped |-> TRUE,
                                    detect |-> "not called",
                                    translate |-> "not called",
                                    sentiment |-> "not called",
                                    calls |-> <<>>])
         /\ UNCHANGED <<analysis_results, response>>
    ELSE
    LET Entry(calls) == [chunk_id |-> chunk.chunk_id, skipped |-> FALSE,
                         detect |-> Outcome(detect),
                         translate |-> Outcome(translate),
                         sentiment |-> Outcome(blob),
                         calls |-> calls]
    IN
    \E language \in {ResolveLanguage(chunk, chunk_text_, detect)} :
    IF language.raised
    THEN /\ trace' = Append(trace, Entry(<< [fn |-> "detect_language",
                                             text |-> chunk_text_] >>))
         /\ stage' = "Failed"
         /\ response' = FailedResponse
         /\ UNCHANGED <<idx, analysis_results>>
    ELSE
    \E step \in {TranslateStep(chunk_text_, language.value,
                               translate_text(chunk_text_, "en", language.value,
                                              translate))} :
    \E sentiment \in {analyze_sentiment(step[1], "en", blob)} :
    /\ trace' = Append(trace, Entry(ServiceCalls(chunk, chunk_text_,
                                                 language.value, step)))
    /\ IF \/ sentiment.raised
          \/ "score" \notin DOMAIN sentiment.value
       THEN /\ stage' = "Failed"
            /\ response' = FailedResponse
            /\ UNCHANGED <<idx, analysis_results>>
       ELSE /\ analysis_results' =
                  Append(analysis_results,
                         ChunkResult(chunk, chunk_text_, step, language.value,
                                     sentiment.value))
            /\ idx' = idx + 1
            /\ stage' = after
            /\ UNCHANGED response

\* Which collaborators the loop body reaches for a chunk.
ReachesDetect(chunk) ==
    /\ Strip(chunk.text) # <<>>
    /\ Lower(Get(chunk, "language", "")) \in {"", "auto"}
    /\ DetectInvoked(chunk.text)

ReachesTranslate(chunk, detect) ==
    /\ Strip(chunk.text) # <<>>
    /\ ~ResolveLanguage(chunk, chunk.text, detect).raised
    /\ ResolveLanguage(chunk, chunk.text, detect).value # "en"

ReachesSentiment(chunk, detect) ==
    /\ Strip(chunk.text) # <<>>
    /\ ~ResolveLanguage(chunk, chunk.text, detect).raised

ProcessChunk ==
    /\ stage = "Chunked"
    /\ idx < Len(chunks)
    /\ \E detect \in IF ReachesDetect(chunks[idx + 1])
                     THEN DetectOutcomes ELSE {NotCalled} :
         \E translate \in IF ReachesTranslate(chunks[idx + 1], detect)
                          THEN TranslateOutcomes ELSE {NotCalled} :
           \E blob \in IF ReachesSentiment(chunks[idx + 1], detect)
                       THEN BlobOutcomes ELSE {NotCalled} :
              ProcessChunkWith(detect, translate, blob)
    /\ UNCHANGED <<arg, called, ret, upload, chunks, summary, hash_order, disk,
                   batch>>

\* Whether generate_summary raises outside its try block: a result without
\* a score breaks the sum of line 308, one without a label the lower() of
\* line 313.
SummaryRaises(results) ==
    \E k \in 1..Len(results) :
        \/ "score" \notin DOMAIN results[k].analysis
        \/ "sentiment" \notin DOMAIN results[k].analysis

\* Lines 256-258: generate_summary on the results; an exception of it
\* reaches the except clause of line 281.
GenerateSummary ==
    /\ stage = "PerChunkProcessed"
    /\ IF SummaryRaises(analysis_results)
       THEN /\ stage' = "Failed"
            /\ response' = FailedResponse
            /\ UNCHANGED summary
       ELSE /\ \E chat \in IF analysis_results = <<>> THEN {NotCalled}
                           ELSE ChatOutcomes :
                  summary' = generate_summary(analysis_results, chat, hash_order)
            /\ stage' = "Summarized"
            /\ UNCHANGED response
    /\ UNCHANGED <<arg, called, ret, upload, chunks, idx, analysis_results, trace,
                   hash_order, disk, batch>>

\* Lines 260-279: delete the file and answer.
Respond ==
    /\ stage = "Summarized"
    /\ response' = SuccessResponse(analysis_results, summary, hash_order)
    /\ stage' = "Completed"
    /\ UNCHANGED <<arg, called, ret, upload, chunks, idx, analysis_results,
                   trace, summary, hash_order, disk, batch>>

Next == ReceiveFile \/ ChunkFile \/ ProcessChunk \/ GenerateSummary \/ Respond

Spec == Init /\ [][Next]_vars

\* The uploads followed to their end: the text files, the files that are
\* refused or cannot be read, and the CSV files of at most one row under
\* the review column alone.  The stages a CSV file passes through do not
\* depend on its columns, and its rows are chunks like those of a text file.
FairUploads ==
    {file \in Uploads :
        (file.suffix = ".csv" /\ file.readable) =>
            /\ file.csv.headers = <<ReviewColumn>>
            /\ Len(file.csv.rows) <= 1}

InitFair == Init /\ upload \in FairUploads

\* The request handler runs upload_file from its first statement to its
\* return without waiting for anything but its collaborators; as long as
\* each of their calls returns or raises, the step that is due is taken.
SpecFair == InitFair /\ [][Next]_vars /\ WF_vars(Next)

-----------------------------------------------------------------------------
(* Properties of the upload workflow, checked under Spec. *)

HasInk(chunk) == Strip(chunk.text) # <<>>
WasProcessed(entry) == ~entry.skipped

\* The chunks with non-empty trimmed text, and the trace entries of the
\* chunks the loop did not skip, both in order.
NonEmptyChunks == SelectSeq(chunks, HasInk)
ProcessedTrace == SelectSeq(trace, WasProcessed)

AnyRaised(entry) ==
    "raised" \in {entry.detect, entry.translate, entry.sentiment}

\* C1: once the chunker has produced its chunks, a failure of the language
\* detector, the translator or the sentiment scorer on a chunk never aborts
\* the batch: it ends with status success and one result per chunk with
\* non-empty text, the failed chunk carrying the default values.
C1_CollaboratorFailureNeverAborts ==
    /\ stage = "Failed" => trace = <<>>
    /\ stage = "Completed" =>
          /\ response.status = "success"
          /\ Len(response.analysis_results) = Len(NonEmptyChunks)
          /\ Len(ProcessedTrace) = Len(NonEmptyChunks)
          /\ \A k \in 1..Len(response.analysis_results) :
                LET r == response.analysis_results[k]
                    e == ProcessedTrace[k]
                IN /\ e.detect = "raised" => r.detected_language = "en"
                   /\ e.translate = "raised" =>
                         /\ ~r.was_translated
                         /\ r.processed_text = r.original_text
                   /\ e.sentiment = "raised" =>
                         /\ r.sentiment = "neutral"
                         /\ r.sentiment_score = Scale \div 2
                         /\ r.polarity = 0

\* C1 witness: a batch of two chunks completed although each of the three
\* collaborators failed on one of them.
C1_Witness ==
    /\ stage = "Completed"
    /\ Len(response.analysis_results) >= 2
    /\ \E k \in 1..Len(trace) : trace[k].detect = "raised"
    /\ \E k \in 1..Len(trace) : trace[k].translate = "raised"
    /\ \E k \in 1..Len(trace) : trace[k].sentiment = "raised"

\* C2: the batch enters Failed only on the step from Received, when
\* process_file raises; no step of the per-chunk stage or of summary
\* generation leads to Failed.
C2_FailedOnlyFromReceived ==
    [][stage' = "Failed" => stage = "Received"]_vars

\* C2 witness: a batch was summarized after a collaborator failed on a
\* chunk and the insight service gave nothing.
C2_Witness ==
    /\ stage = "Summarized"
    /\ \E k \in 1..Len(trace) : AnyRaised(trace[k])
    /\ ~Truthy(summary.ollama_insights)

\* C3: when every collaborator succeeds, a batch whose chunker output has K
\* chunks with non-empty trimmed text yields exactly K results, the k-th
\* for the k-th such chunk and with its chunk_id.
C3_OneResultPerNonEmptyChunk ==
    (stage = "Completed" /\ \A k \in 1..Len(trace) : ~AnyRaised(trace[k])) =>
        /\ Len(response.analysis_results) = Len(NonEmptyChunks)
        /\ \A k \in 1..Len(NonEmptyChunks) :
              /\ response.analysis_results[k].chunk_id = NonEmptyChunks[k].chunk_id
              /\ response.analysis_results[k].original_text = NonEmptyChunks[k].text

\* C3 witness: a batch of two chunks completed with every collaborator
\* succeeding, one chunk translated.
C3_Witness ==
    /\ stage = "Completed"
    /\ Len(NonEmptyChunks) >= 2
    /\ \A k \in 1..Len(trace) : ~AnyRaised(trace[k])
    /\ \E k \in 1..Len(analysis_results) : analysis_results[k].was_translated

\* C4: a chunk whose translation was invoked and failed has a result with
\* was_translated false and processed_text equal to original_text, and it
\* was sentiment-scored.
C4_FailedTranslationKeepsOriginal ==
    /\ stage # "Failed" => Len(analysis_results) = Len(ProcessedTrace)
    /\ \A k \in 1..Len(analysis_results) :
          ProcessedTrace[k].translate = "raised" =>
              /\ ~analysis_results[k].was_translated
              /\ analysis_results[k].processed_text
                     = analysis_results[k].original_text
              /\ ProcessedTrace[k].sentiment # "not called"
              /\ analysis_results[k].sentiment
                     \in {"positive", "neutral", "negative"}

\* C4 witness: the translator failed on a chunk detected as Spanish, and
\* the chunk was scored by TextBlob.
C4_Witness ==
    \E k \in 1..Len(analysis_results) :
        /\ ProcessedTrace[k].translate = "raised"
        /\ ProcessedTrace[k].sentiment = "returned"
        /\ analysis_results[k].detected_language = "es"

\* The elements of a list.
Elements(list) == {list[k] : k \in 1..Len(list)}

\* C12: on every completed batch the counters of the response agree with
\* those of the summary: total_chunks with total_reviews_analyzed,
\* translations_performed with translations_performed, and the two
\* languages_detected as sets.
C12_CountersAgreeWithSummary ==
    stage = "Completed" =>
        /\ response.total_chunks = response.summary.total_reviews_analyzed
        /\ response.translations_performed
               = response.summary.translations_performed
        /\ Elements(response.languages_detected)
               = Elements(response.summary.languages_detected)

\* C12 witness: a completed batch of two chunks, one translated and one
\* whose translation failed.
C12_Witness ==
    /\ stage = "Completed"
    /\ response.total_chunks = 2
    /\ response.translations_performed = 1
    /\ \E k \in 1..Len(analysis_results) :
          /\ analysis_results[k].detected_language = "es"
          /\ ~analysis_results[k].was_translated

\* C14: a batch without a valid chunk has a summary with
\* total_reviews_analyzed 0, every distribution count 0, no language,
\* translations_performed 0 and the single insight line "No reviews to
\* analyze".
C14_EmptyBatchSummary ==
    (stage \in {"Summarized", "Completed"} /\ analysis_results = <<>>) =>
        /\ summary.total_reviews_analyzed = 0
        /\ summary.sentiment_distribution
               = [positive |-> 0, neutral |-> 0, negative |-> 0]
        /\ summary.languages_detected = <<>>
        /\ summary.translations_performed = 0
        /\ summary.key_insights = << <<"No reviews to analyze">> >>

\* C14 witness: an upload of blank lines only was completed, and its
\* response carries the summary of an empty batch.
C14_Witness ==
    /\ stage = "Completed"
    /\ upload.suffix = ".txt"
    /\ upload.content # <<>>
    /\ analysis_results = <<>>
    /\ response.summary.total_reviews_analyzed = 0

\* The number of Spanish reviews among the rows of a CSV file.
SpanishRows(rows) == Cardinality({k \in 1..Len(rows) : rows[k][1] = <<"y">>})

\* C15: a completed upload of a CSV file with three data rows, exactly one
\* of them Spanish, on which every collaborator answered, reports
\* translations_performed = 1 and both en and es in languages_detected.
C15_ThreeRowCsvOneSpanish ==
    (/\ stage = "Completed"
     /\ upload.suffix = ".csv"
     /\ Len(upload.csv.rows) = 3
     /\ SpanishRows(upload.csv.rows) = 1
     /\ \A k \in 1..Len(trace) : ~AnyRaised(trace[k])) =>
        /\ response.translations_performed = 1
        /\ {"en", "es"} \subseteq Elements(response.languages_detected)

\* The chunking mode of each format.
ModeChunks(file) ==
    CASE file.suffix = ".txt" ->
            process_text_file(file.content, DefaultChunkSize, DefaultOverlap)
      [] file.suffix = ".csv" ->
            process_csv_file(file.csv, DefaultChunkSize, DefaultOverlap)
      [] file.suffix = ".json" ->
            process_json_file(file.json, DefaultChunkSize, DefaultOverlap)

\* C18: an uploaded plain-text, CSV or JSON file that can be read and
\* parsed is never rejected before chunking, and it is chunked in the mode
\* of its format.
C18_AllThreeFormatsAccepted ==
    (/\ upload.suffix \in {".txt", ".csv", ".json"}
     /\ upload.readable
     /\ upload.suffix = ".json" => upload.json # MalformedJson) =>
        /\ stage # "Rejected"
        /\ stage \in {"Chunked", "PerChunkProcessed", "Summarized", "Completed"}
              => chunks = ModeChunks(upload)

\* The language code a CSV value spells.
CodeOf(value) == IF value = <<"e", "s">> THEN "es" ELSE "en"

\* C19: for a CSV file with language, rating and date columns every chunk
\* carries the three values of its row, the language value is the language
\* of the chunk's result and the result's rating and date are the row's.
C19_CsvColumnsPassThrough ==
    (/\ upload.suffix = ".csv"
     /\ upload.readable
     /\ upload.csv.headers = AnnotatedHeaders) =>
        /\ \A k \in 1..Len(chunks) :
              /\ {"language", "rating", "date"} \subseteq DOMAIN chunks[k]
              /\ LET row == upload.csv.rows[chunks[k].start_row + 1] IN
                 /\ chunks[k].language = row[2]
                 /\ chunks[k].rating = row[3]
                 /\ chunks[k].date = row[4]
        /\ \A k \in 1..Len(analysis_results) :
              LET row == upload.csv.rows[chunks[k].start_row + 1] IN
              /\ analysis_results[k].detected_language = CodeOf(row[2])
              /\ analysis_results[k].rating = row[3]
              /\ analysis_results[k].date = row[4]

\* The result of the k-th visited chunk, which the loop did not skip.
ResultAt(k) ==
    analysis_results[Cardinality({j \in 1..k : ~trace[j].skipped})]

IsNoDetectCall(call) == call.fn # "detect_language"

\* C23: for every processed chunk the services are called in the order
\* language resolution, translation, sentiment scoring: translate_text is
\* called, with target en and the resolved language as source, exactly
\* when the resolved language is not en; analyze_sentiment is called once,
\* last, on the working text with language en; and the chunks are served
\* one after the other in the order of the chunk list.
C23_ServicesCalledInOrder ==
    \A k \in 1..Len(trace) :
        /\ trace[k].chunk_id = chunks[k].chunk_id
        /\ trace[k].skipped => trace[k].calls = <<>>
        /\ ~trace[k].skipped =>
              LET calls == trace[k].calls
                  result == ResultAt(k)
                  after_resolution == SelectSeq(calls, IsNoDetectCall)
              IN /\ \A c \in 2..Len(calls) : IsNoDetectCall(calls[c])
                 /\ after_resolution =
                       (IF result.detected_language # "en"
                        THEN << [fn |-> "translate_text",
                                 text |-> result.original_text,
                                 target_lang |-> "en",
                                 source_lang |-> result.detected_language] >>
                        ELSE <<>>)
                       \o << [fn |-> "analyze_sentiment",
                              text |-> result.processed_text,
                              language |-> "en"] >>

\* C23 witness: two chunks were processed, the first detected as Spanish
\* and translated before it was scored, the second English.
C23_Witness ==
    /\ Len(trace) = 2
    /\ Len(analysis_results) = 2
    /\ analysis_results[1].was_translated
    /\ analysis_results[1].processed_text # analysis_results[1].original_text
    /\ Len(trace[1].calls) = 3
    /\ analysis_results[2].detected_language = "en"
    /\ Len(trace[2].calls) = 2

\* The stages in the order the workflow passes through them; the two
\* terminal outcomes come last.
StageRank(s) ==
    CASE s = "Submitted" -> 0
      [] s = "Received" -> 1
      [] s = "Chunked" -> 2
      [] s = "PerChunkProcessed" -> 3
      [] s = "Summarized" -> 4
      [] OTHER -> 5

\* C27: every received batch terminates.  As long as each collaborator
\* call returns or raises, the batch reaches Completed or Failed; every
\* step either moves it to a later stage or, within the loop over the
\* chunks, to the next chunk, so that no state is revisited, no step
\* leaves a terminal outcome and the batch has exactly one of them.
C27_EveryBatchTerminates ==
    /\ (stage = "Received") ~> (stage \in {"Completed", "Failed"})
    /\ [][\/ StageRank(stage') > StageRank(stage)
          \/ /\ stage = "Chunked"
             /\ stage' = "Chunked"
             /\ idx' = idx + 1
             /\ idx' < Len(chunks)]_vars

\* C27 witness: a batch of two chunks ran through the loop and completed.
C27_Witness ==
    /\ stage = "Completed"
    /\ idx = 2
    /\ Len(chunks) = 2
    /\ response.status = "success"

\* The results whose resolved language is not English.
ForeignResults == {k \in 1..Len(analysis_results) : analysis_results[k].detected_language # "en"}

\* The trace entries of the chunks that have a result.
ResultEntries ==
    {k \in 1..Len(trace) :
        /\ ~trace[k].skipped
        /\ Cardinality({j \in 1..k : ~trace[j].skipped}) <= Len(analysis_results)}

\* C28: a result has was_translated only if its language is not en and the
\* translator was called and returned text, which translate_text then
\* answers without an error field; a result resolved to en keeps its
\* original text as processed text; and in the success response
\* translations_performed is at most the number of results whose language
\* is not en, which is at most total_chunks.
C28_TranslatedOnlyWhenForeign ==
    /\ \A k \in ResultEntries :
          LET result == ResultAt(k) IN
          /\ result.was_translated =>
                /\ result.detected_language # "en"
                /\ trace[k].translate = "returned"
          /\ result.detected_language = "en" =>
                /\ ~result.was_translated
                /\ result.processed_text = result.original_text
    /\ stage = "Completed" =>
          /\ response.translations_performed <= Cardinality(ForeignResults)
          /\ Cardinality(ForeignResults) <= response.total_chunks
          /\ response.translations_performed =
                Cardinality({k \in 1..Len(analysis_results) :
                                analysis_results[k].was_translated})

\* C28 witness: of two Spanish chunks the translator answered one and
\* failed on the other, so that one translation was performed for two
\* results that are not English.
C28_Witness ==
    /\ stage = "Completed"
    /\ response.total_chunks = 2
    /\ Cardinality(ForeignResults) = 2
    /\ response.translations_performed = 1
    /\ \E k \in 1..Len(trace) : trace[k].translate = "raised"

-----------------------------------------------------------------------------
(* The chunker under study: one call of one chunking mode on one input.    *)

OverlapValues ==
    {0, OverlapDivisor - 1, OverlapDivisor, 2 * OverlapDivisor}

CsvValues == {<<>>, <<"x">>, <<"y">>, <<"x", "y">>}
CsvHeaders == <<ReviewColumn>>

ChunkTextArgs ==
    [fn : {"chunk_text"},
     text : SeqsUpTo(Alphabet, MaxTextLen),
     chunk_size : 1..MaxChunkSize,
     overlap : OverlapValues,
     min_chunk_size : 0..MaxMinChunkSize]

TextFileArgs ==
    [fn : {"process_text_file"},
     content : SeqsUpTo(FileAlphabet, MaxFileLen),
     chunk_size : 1..MaxChunkSize,
     overlap : OverlapValues]

CsvFileArgs ==
    [fn : {"process_csv_file"},
     csv : [headers : {CsvHeaders},
            rows : SeqsUpTo([1..1 -> CsvValues], MaxRows)],
     chunk_size : 1..MaxCsvChunkSize,
     overlap : {0, DefaultOverlap}]

JsonValues == {<<"a">>, <<".", " ">>}

JsonFileArgs ==
    [fn : {"process_json_file"},
     data : {JsonArray(items) :
                items \in SeqsUpTo({ReviewObject(v) : v \in JsonValues}, 2)}
            \cup {JsonObject(ReviewObject(v)) : v \in JsonValues},
     chunk_size : (1..MaxChunkSize) \cup {DefaultChunkSize},
     overlap : {0, DefaultOverlap}]

\* The workflow is not running while a chunker call is studied.
WorkflowIdle ==
    /\ stage = "Idle"
    /\ upload = <<>>
    /\ chunks = <<>>
    /\ idx = 0
    /\ analysis_results = <<>>
    /\ trace = <<>>
    /\ summary = NoSummary
    /\ response = NoResponse
    /\ hash_order = <<>>
    /\ disk = NoDisk
    /\ batch = NoBatch

workflowVars ==
    <<stage, upload, chunks, idx, analysis_results, trace, summary, response,
      hash_order, disk, batch>>

InitChunker ==
    /\ arg \in ChunkTextArgs \cup TextFileArgs \cup CsvFileArgs \cup JsonFileArgs
    /\ called = FALSE
    /\ ret = <<>>
    /\ WorkflowIdle

CallChunkText ==
    /\ ~called
    /\ arg.fn = "chunk_text"
    /\ called' = TRUE
    /\ ret' = chunk_text(arg.text, arg.chunk_size, arg.overlap,
                         arg.min_chunk_size)
    /\ UNCHANGED <<arg, workflowVars>>

CallProcessTextFile ==
    /\ ~called
    /\ arg.fn = "process_text_file"
    /\ called' = TRUE
    /\ ret' = process_text_file(arg.content, arg.chunk_size, arg.overlap)
    /\ UNCHANGED <<arg, workflowVars>>

CallProcessCsvFile ==
    /\ ~called
    /\ arg.fn = "process_csv_file"
    /\ called' = TRUE
    /\ ret' = process_csv_file(arg.csv, arg.chunk_size, arg.overlap)
    /\ UNCHANGED <<arg, workflowVars>>

CallProcessJsonFile ==
    /\ ~called
    /\ arg.fn = "process_json_file"
    /\ called' = TRUE
    /\ ret' = process_json_file(arg.data, arg.chunk_size, arg.overlap)
    /\ UNCHANGED <<arg, workflowVars>>

NextChunker ==
    \/ CallChunkText
    \/ CallProcessTextFile
    \/ CallProcessCsvFile
    \/ CallProcessJsonFile

SpecChunker == InitChunker /\ [][NextChunker]_vars

-----------------------------------------------------------------------------
(* generate_summary under study: the results of one batch are summarized   *)
(* in up to MaxRuns runs of the workflow, each in an interpreter process   *)
(* of its own, with the same answer of the insight service.                *)

MaxResults == 6   \* most chunk results of the batch
MaxRuns == 2      \* runs of the workflow on the batch

\* Lines 205-251: the result upload_file builds for a chunk on which the
\* collaborators answer detect, translate and blob.
PipelineResult(chunk, detect, translate, blob) ==
    LET language == ResolveLanguage(chunk, chunk.text, detect)
        translation == translate_text(chunk.text, "en", language.value, translate)
        step == TranslateStep(chunk.text, language.value, translation)
        sentiment == analyze_sentiment(step[1], "en", blob)
    IN ChunkResult(chunk, chunk.text, step, language.value, sentiment.value)

\* What the collaborators answer on the reviews of the batch: an English
\* review scored positive, a Spanish one translated and scored negative,
\* and a Spanish one on which translator and scorer fail.
ReviewKinds ==
    {[detect |-> Returned("en"), translate |-> NotCalled,
      blob |-> Returned([polarity |-> Scale \div 2, subjectivity |-> Scale \div 2])],
     [detect |-> Returned("es"), translate |-> Returned(<<"e">>),
      blob |-> Returned([polarity |-> 0 - Scale \div 2, subjectivity |-> Scale])],
     [detect |-> Returned("es"), translate |-> Raised, blob |-> Raised]}

\* The results of a batch of one-line reviews of the given kinds, uploaded
\* as a plain-text file.
BatchResults(kinds) ==
    LET content == Join([k \in 1..Len(kinds) |-> <<"a">>], <<"\n">>)
        file_chunks == process_text_file(content, DefaultChunkSize, DefaultOverlap)
    IN [k \in 1..Len(kinds) |->
           PipelineResult(file_chunks[k], kinds[k].detect, kinds[k].translate,
                          kinds[k].blob)]

MaxTopicResults == 2   \* most results of a batch whose results bear topics

\* The topic lists a result may bear: its own topics field (present or
\* not), the topics of its advanced_analysis field and those of its
\* analysis field (each present when not empty).
TopicKinds ==
    {kind \in [own_present : BOOLEAN,
               own : {<<>>, <<"p">>, <<"b", "p">>},
               advanced : {<<>>, <<"s">>},
               analysis : {<<>>, <<"b">>}] :
        kind.own_present \/ kind.own = <<>>}

\* A result with more topics than common_topics keeps, the last of them
\* repeated or not in its analysis field.
ManyTopics == <<"p", "s", "b", "c", "d", "f", "g", "h", "j", "k", "m">>

ManyTopicKinds ==
    [own_present : {TRUE}, own : {ManyTopics}, advanced : {<<>>},
     analysis : {<<>>, <<"m">>}]

\* A chunk result bearing the topic lists of the kind, the fields that
\* generate_summary reads at lines 321 and 326.
TopicResult(result, kind) ==
    LET with_analysis ==
            IF kind.analysis # <<>>
            THEN [result EXCEPT !.analysis = [topics |-> kind.analysis] @@ @]
            ELSE result
        with_advanced ==
            IF kind.advanced # <<>>
            THEN [advanced_analysis |-> [topics |-> kind.advanced]] @@ with_analysis
            ELSE with_analysis
    IN IF kind.own_present THEN [topics |-> kind.own] @@ with_advanced
       ELSE with_advanced

\* The results of a batch of English reviews that bear topics.
TopicBatchResults(kinds) ==
    LET english == CHOOSE kind \in ReviewKinds : kind.detect = Returned("en")
        plain == BatchResults([k \in 1..Len(kinds) |-> english])
    IN [k \in 1..Len(kinds) |-> TopicResult(plain[k], kinds[k])]

SummaryArgs ==
    [fn : {"generate_summary"},
     results : {BatchResults(kinds) : kinds \in SeqsUpTo(ReviewKinds, MaxResults)},
     chat : ChatOutcomes]
    \cup [fn : {"generate_summary"},
          results : {TopicBatchResults(kinds) :
                        kinds \in (SeqsUpTo(TopicKinds, MaxTopicResults) \ {<<>>})
                                  \cup {<<kind>> : kind \in ManyTopicKinds}},
          chat : {Raised}]

InitSummary ==
    /\ arg \in SummaryArgs
    /\ called = FALSE
    /\ ret = <<>>
    /\ WorkflowIdle

\* One run: generate_summary on the results, in a process with its own
\* iteration order of sets.
CallGenerateSummary ==
    /\ arg.fn = "generate_summary"
    /\ Len(ret) < MaxRuns
    /\ called' = TRUE
    /\ \E order \in HashOrders :
          /\ hash_order' = order
          /\ ret' = Append(ret, generate_summary(arg.results, arg.chat, order))
    /\ UNCHANGED <<arg, stage, upload, chunks, idx, analysis_results, trace,
                   summary, response, disk, batch>>

NextSummary == CallGenerateSummary

SpecSummary == InitSummary /\ [][NextSummary]_vars

-----------------------------------------------------------------------------
(* Properties of the chunker, checked under SpecChunker. *)

IsChunkText == called /\ arg.fn = "chunk_text"
IsTextFile == called /\ arg.fn = "process_text_file"
IsCsvFile == called /\ arg.fn = "process_csv_file"

\* C5: in every chunking mode the chunk_id values of the emitted chunks are
\* 0, 1, 2, ... in emission order, so that a skipped blank line of line
\* mode consumes no chunk_id.
C5_ChunkIdsAreDense ==
    called => \A k \in 1..Len(ret) : ret[k].chunk_id = k - 1

\* C6: a non-empty chunk sequence has exactly one chunk with is_last set,
\* and it is the last chunk in emission order, also in line mode when blank
\* lines follow the final non-blank line.
C6_ExactlyOneLastChunk ==
    called => \A k \in 1..Len(ret) : ret[k].is_last <=> (k = Len(ret))

\* The positions of text that hold a character other than whitespace.
InkPositions(text) == {p \in 1..Len(text) : text[p] \notin Whitespace}

\* text without its leading and trailing whitespace, from the positions of
\* its first and last other characters.
Trimmed(text) ==
    IF InkPositions(text) = {} THEN <<>>
    ELSE LET first == CHOOSE p \in InkPositions(text) :
                          \A q \in InkPositions(text) : p <= q
             last == CHOOSE p \in InkPositions(text) :
                          \A q \in InkPositions(text) : q <= p
         IN [k \in 1..(last - first + 1) |-> text[first + k - 1]]

\* C7 as stated: an input shorter than chunk_size yields exactly one chunk,
\* with chunk_id 0, start 0, end the length of the input, text the whole
\* input and is_last set.
C7_ShortInputIsOneWholeChunk ==
    (IsChunkText /\ Len(arg.text) < arg.chunk_size) =>
        ret = << [text |-> arg.text, chunk_id |-> 0, start |-> 0,
                  end |-> Len(arg.text), is_last |-> TRUE] >>

\* C7 amended: an input whose trimmed text is non-empty and no longer than
\* chunk_size yields exactly one chunk, with chunk_id 0, start 0, end the
\* length of the trimmed text, text the trimmed text and is_last set; an
\* empty or all-whitespace input yields no chunk.
C7_ShortInputIsOneTrimmedChunk ==
    IsChunkText =>
        /\ Trimmed(arg.text) = <<>> => ret = <<>>
        /\ (Trimmed(arg.text) # <<>>
            /\ Len(Trimmed(arg.text)) <= arg.chunk_size) =>
               ret = << [text |-> Trimmed(arg.text), chunk_id |-> 0,
                         start |-> 0, end |-> Len(Trimmed(arg.text)),
                         is_last |-> TRUE] >>

\* C7 witness: a short input with surrounding whitespace was chunked.
C7_Witness ==
    /\ IsChunkText
    /\ Len(arg.text) < arg.chunk_size
    /\ Trimmed(arg.text) # <<>>
    /\ Trimmed(arg.text) # arg.text
    /\ Len(ret) = 1

\* The lines of a file, as the spans between consecutive line breaks: a
\* span is <<from, to>>, the positions of its first and last characters.
LineBreaks(content) == {p \in 1..Len(content) : content[p] = "\n"}

LineSpans(content) ==
    LET cuts == LineBreaks(content) \cup {0, Len(content) + 1} IN
    {sp \in cuts \X cuts :
        /\ sp[1] < sp[2]
        /\ \A c \in cuts : ~(sp[1] < c /\ c < sp[2])}

NonBlankSpans(content) ==
    {sp \in LineSpans(content) :
        \E p \in (sp[1] + 1)..(sp[2] - 1) : content[p] \notin Whitespace}

\* The text strictly between the cuts of a span, trimmed.
SpanText(content, sp) ==
    Trimmed([k \in 1..(sp[2] - sp[1] - 1) |-> content[sp[1] + k]])

\* C8: in line mode there are as many chunks as non-blank lines, the i-th
\* chunk holds the i-th non-blank line, trimmed, and no size limit splits
\* or merges lines.
C8_OneChunkPerNonBlankLine ==
    IsTextFile =>
        /\ Len(ret) = Cardinality(NonBlankSpans(arg.content))
        /\ \A sp \in NonBlankSpans(arg.content) :
              LET rank == Cardinality({o \in NonBlankSpans(arg.content) :
                                          o[1] <= sp[1]})
              IN ret[rank].text = SpanText(arg.content, sp)

\* C8 witness: a file with a blank line between two non-blank lines was
\* chunked, one line padded with blanks and one longer than chunk_size.
C8_Witness ==
    /\ IsTextFile
    /\ Len(ret) = 2
    /\ Cardinality(LineSpans(arg.content)) >= 3
    /\ \E sp \in NonBlankSpans(arg.content) :
          sp[2] - sp[1] - 1 > Len(SpanText(arg.content, sp))
    /\ \E k \in 1..Len(ret) : Len(ret[k].text) > arg.chunk_size

\* C9: in CSV mode the inclusive row ranges of the chunks are consecutive
\* and disjoint, from row 0 to the final data row, and each chunk's text
\* holds exactly the rendered rows of its range, joined by newlines.
C9_CsvRangesPartitionRows ==
    IsCsvFile =>
        LET rows == arg.csv.rows
            rendered == [r \in 1..Len(rows) |-> RowText(arg.csv.headers, rows[r])]
        IN /\ (ret = <<>>) <=> (rows = <<>>)
           /\ ret # <<>> => /\ ret[1].start_row = 0
                            /\ ret[Len(ret)].end_row = Len(rows) - 1
           /\ \A k \in 1..Len(ret) :
                 /\ ret[k].start_row <= ret[k].end_row
                 /\ k > 1 => ret[k].start_row = ret[k - 1].end_row + 1
                 /\ ret[k].text =
                       Join(SubSeq(rendered, ret[k].start_row + 1,
                                   ret[k].end_row + 1), <<"\n">>)

\* C9 witness: a CSV file was cut into at least two chunks, one of them
\* holding more than one row.
C9_Witness ==
    /\ IsCsvFile
    /\ Len(ret) >= 2
    /\ \E k \in 1..Len(ret) : ret[k].end_row > ret[k].start_row

C11_OffsetsLocateChunkText ==
    IsChunkText =>
        LET T == Trimmed(arg.text) IN
        /\ \A k \in 1..Len(ret) :
              /\ 0 <= ret[k].start
              /\ ret[k].start <= ret[k].end
              /\ ret[k].end <= Len(T)
              /\ SubSeq(T, ret[k].start + 1, ret[k].end) = ret[k].text
        /\ \A p \in 1..Len(T) :
              \E k \in 1..Len(ret) : ret[k].start < p /\ p <= ret[k].end

\* C24: when chunk_text closes a chunk whose sentence list has more than
\* overlap // 50 entries, the new chunk is seeded with the trailing
\* overlap // 50 entries of the closed chunk followed by the triggering
\* sentence, the carried text being dropped only when it is the triggering
\* sentence itself; so for an overlap below 50, 0 included, nothing is
\* carried over.
C24_SeedIsTrailingSentences ==
    (IsChunkText /\ Len(Trimmed(arg.text)) > arg.chunk_size) =>
        LET text == Trimmed(arg.text)
            sentences == SplitSentences(text)
            carried == arg.overlap \div OverlapDivisor
            st0 == [chunks |-> <<>>, chunk_id |-> 0,
                    current_chunk |-> <<>>, current_length |-> 0]
            StateAfter(j) == SentenceLoop(st0, SubSeq(sentences, 1, j), text,
                                          arg.chunk_size, arg.overlap)
        IN \A j \in 1..Len(sentences) :
              LET closed == StateAfter(j - 1).current_chunk
                  seeded == StateAfter(j).current_chunk
                  sentence == Trimmed(sentences[j])
                  trailing == SubSeq(closed, Len(closed) - carried + 1, Len(closed))
              IN (/\ Len(StateAfter(j).chunks) > Len(StateAfter(j - 1).chunks)
                  /\ Len(closed) > carried) =>
                     Join(seeded, <<" ">>) =
                        IF Join(trailing, <<" ">>) = sentence THEN sentence
                        ELSE Join(trailing \o <<sentence>>, <<" ">>)

\* Whether sub occurs in text.
Occurs(sub, text) == Find(text, sub) >= 0

\* C25: in sentence mode chunk_text always emits the final running chunk,
\* whatever its length and min_chunk_size, and marks it is_last; so every
\* sentence of the input occurs in the text of some emitted chunk.
C25_FinalChunkAlwaysEmitted ==
    (IsChunkText /\ Len(Trimmed(arg.text)) > arg.chunk_size) =>
        LET sentences == SplitSentences(Trimmed(arg.text)) IN
        /\ ret # <<>>
        /\ ret[Len(ret)].is_last
        /\ \A j \in 1..Len(sentences) :
              Trimmed(sentences[j]) # <<>> =>
                 \E k \in 1..Len(ret) : Occurs(Trimmed(sentences[j]), ret[k].text)

\* Whether a CSV chunk holds more than one row: its rows are joined by
\* newlines, and the values drawn hold none.
HasManyRows(chunk) == \E p \in 1..Len(chunk.text) : chunk.text[p] = "\n"

\* C29: in CSV mode every emitted chunk of more than one row has a text,
\* the rows joined by newlines, of at most chunk_size characters; only a
\* chunk of a single row may be longer than chunk_size.
C29_ManyRowChunkWithinSize ==
    IsCsvFile =>
        \A k \in 1..Len(ret) :
            HasManyRows(ret[k]) => Len(ret[k].text) <= arg.chunk_size

-----------------------------------------------------------------------------
(* Concurrent uploads: two requests handled by upload_file at once, each   *)
(* in a thread of the server.  A request saves its file in the upload      *)
(* folder under the client's file name (lines 181-185), chunks the saved   *)
(* file (line 191), processes the chunks (lines 198-258), and removes the  *)
(* file (lines 260-265).                                                   *)

MaxBatchLen == 2   \* longest file of a concurrent upload, in characters

Batches == {1, 2}
Filenames == {"a.txt", "b.txt"}
BatchContents == SeqsUpTo({"a", "\n"}, MaxBatchLen)

Absent == [exists |-> FALSE, content |-> <<>>]
Saved(content) == [exists |-> TRUE, content |-> content]

\* os.path.join(UPLOAD_FOLDER, secure_filename(file.filename)): the path of
\* an upload is its file name within the one upload folder.
Filepath(filename) == filename

InitConcurrent ==
    /\ arg = [fn |-> "upload_file"]
    /\ called = FALSE
    /\ ret = <<>>
    /\ stage = "Idle"
    /\ upload = <<>>
    /\ chunks = <<>>
    /\ idx = 0
    /\ analysis_results = <<>>
    /\ trace = <<>>
    /\ summary = NoSummary
    /\ response = NoResponse
    /\ hash_order = <<>>
    /\ disk = [f \in Filenames |-> Absent]
    /\ batch \in [Batches -> [filename : Filenames, content : BatchContents,
                               pc : {"save"}, chunks : {<<>>},
                               total_chunks : {0}, response : {NoResponse}]]

singleBatchVars ==
    <<arg, called, ret, stage, upload, chunks, idx, analysis_results, trace,
      summary, response, hash_order>>

\* Line 185: file.save(filepath).
SaveFile(b) ==
    /\ batch[b].pc = "save"
    /\ disk' = [disk EXCEPT ![Filepath(batch[b].filename)] = Saved(batch[b].content)]
    /\ batch' = [batch EXCEPT ![b].pc = "chunk"]
    /\ UNCHANGED singleBatchVars

\* Line 191: process_file(filepath), which raises FileNotFoundError when
\* the path does not exist (chunking.py lines 108-109); the exception is
\* answered with status 500 (lines 281-283).
ChunkUpload(b) ==
    /\ batch[b].pc = "chunk"
    /\ LET file == disk[Filepath(batch[b].filename)] IN
       IF ~file.exists
       THEN batch' = [batch EXCEPT ![b].pc = "failed",
                                   ![b].response = FailedResponse]
       ELSE batch' = [batch EXCEPT
                         ![b].pc = "process",
                         ![b].chunks = process_text_file(file.content,
                                                         DefaultChunkSize,
                                                         DefaultOverlap)]
    /\ UNCHANGED <<disk, singleBatchVars>>

\* Lines 198-258: the loop over the chunks and the summary, which read and
\* write the request's own lists only; one result per chunk.
ProcessUpload(b) ==
    /\ batch[b].pc = "process"
    /\ batch' = [batch EXCEPT ![b].pc = "delete",
                              ![b].total_chunks = Len(batch[b].chunks)]
    /\ UNCHANGED <<disk, singleBatchVars>>

\* Lines 260-279: os.remove(filepath), whose exception on a missing file
\* is caught and logged, then the response.
DeleteFile(b) ==
    /\ batch[b].pc = "delete"
    /\ disk' = [disk EXCEPT ![Filepath(batch[b].filename)] = Absent]
    /\ batch' = [batch EXCEPT
                     ![b].pc = "done",
                     ![b].response = [status |-> "success", code |-> 200,
                                      total_chunks |-> batch[b].total_chunks]]
    /\ UNCHANGED singleBatchVars

NextConcurrent ==
    \E b \in Batches :
        SaveFile(b) \/ ChunkUpload(b) \/ ProcessUpload(b) \/ DeleteFile(b)

SpecConcurrent == InitConcurrent /\ [][NextConcurrent]_vars

\* C17: under every interleaving of the steps of two concurrent uploads,
\* the two with the same file name included, no upload fails and each is
\* chunked from its own content.
C17_ConcurrentBatchesAreIsolated ==
    \A b \in DOMAIN batch :
        /\ batch[b].pc # "failed"
        /\ batch[b].pc \in {"process", "delete", "done"} =>
              batch[b].chunks = process_text_file(batch[b].content,
                                                  DefaultChunkSize,
                                                  DefaultOverlap)

-----------------------------------------------------------------------------
(* Properties of generate_summary, checked under SpecSummary. *)

IsSummary == called /\ arg.fn = "generate_summary"

PercentageSum(summary_) ==
    summary_.sentiment_percentages.positive
    + summary_.sentiment_percentages.neutral
    + summary_.sentiment_percentages.negative

C16_RerunGivesSameSummary ==
    (IsSummary /\ Len(ret) = MaxRuns) =>
        \A k \in 1..Len(ret) : ret[k] = ret[1]

\* Whether the insight call fails: it raises or answers with an error
\* field, or its answer is no dictionary, so that handling it raises.
InsightCallFails(chat) ==
    LET answer == analyze_with_ollama(chat).value IN
    \/ answer.type # "dict"
    \/ "error" \in DOMAIN answer.dict

IsTemplateLine(line) == line[1] # "AI"

\* C20: on a non-empty batch whose insight call fails the summary is
\* returned with ollama_insights empty, key_insights holding template
\* lines only and the last checklist entry saying that basic insights were
\* provided.
C20_FailedInsightLeavesBasicSummary ==
    (IsSummary /\ arg.results # <<>> /\ InsightCallFails(arg.chat)) =>
        \A k \in 1..Len(ret) :
            /\ ret[k].ollama_insights = EmptyDict
            /\ \A j \in 1..Len(ret[k].key_insights) :
                  IsTemplateLine(ret[k].key_insights[j])
            /\ ret[k].workflow_steps_completed[
                   Len(ret[k].workflow_steps_completed)]
                   = "Basic insights provided"

\* Whether the answer of the insight service has the expected structured
\* shape: a dictionary without an error field that holds key_insights.
HasExpectedShape(chat) ==
    LET answer == analyze_with_ollama(chat).value IN
    /\ answer.type = "dict"
    /\ "error" \notin DOMAIN answer.dict
    /\ "key_insights" \in DOMAIN answer.dict

\* C21: an answer of the insight service without the expected structured
\* shape (a plain-text reply wrapped as {analysis: text}, an answer without
\* key_insights) is treated as an error: ollama_insights stays empty and
\* no insight line is added.
C21_ShapeMismatchIsNoAugmentation ==
    (IsSummary /\ arg.results # <<>> /\ ~HasExpectedShape(arg.chat)) =>
        \A k \in 1..Len(ret) :
            /\ ret[k].ollama_insights = EmptyDict
            /\ \A j \in 1..Len(ret[k].key_insights) :
                  IsTemplateLine(ret[k].key_insights[j])

-----------------------------------------------------------------------------
(* The loop over the chunks under study: lines 198-254 of upload_file,     *)
(* entered with a list of chunks of which some carry a language field, as  *)
(* line 206 expects of the chunks of a CSV file ("Use language from CSV if *)
(* available, otherwise detect").                                          *)

MaxLoopChunks == 2   \* most chunks of the list

\* The values of a chunk's language field; NoHint is a chunk without one.
NoHint == "absent"
LanguageHints == {NoHint, "", "auto", "AUTO", "en", "ES"}

\* A chunk of text, with the language field when it has one.
HintedChunk(text, chunk_id, is_last, hint) ==
    IF hint = NoHint
    THEN [text |-> text, chunk_id |-> chunk_id, start |-> 0, end |-> Len(text),
          is_last |-> is_last]
    ELSE [text |-> text, chunk_id |-> chunk_id, start |-> 0, end |-> Len(text),
          is_last |-> is_last, language |-> hint]

\* The chunks of the list: a review with any of the hints, or a blank chunk.
LoopChunkKinds ==
    [text : {<<"a">>}, hint : LanguageHints]
    \cup [text : {<<" ">>}, hint : {NoHint}]

LoopChunkLists ==
    {[k \in 1..Len(kinds) |->
         HintedChunk(kinds[k].text, k - 1, k = Len(kinds), kinds[k].hint)] :
        kinds \in SeqsUpTo(LoopChunkKinds, MaxLoopChunks) \ {<<>>}}

InitLoop ==
    /\ arg = [fn |-> "upload_file"]
    /\ called = FALSE
    /\ ret = <<>>
    /\ stage = "Chunked"
    /\ upload = <<>>
    /\ chunks \in LoopChunkLists
    /\ idx = 0
    /\ analysis_results = <<>>
    /\ trace = <<>>
    /\ summary = NoSummary
    /\ response = NoResponse
    /\ hash_order = <<>>
    /\ disk = NoDisk
    /\ batch = NoBatch

NextLoop == ProcessChunk

SpecLoop == InitLoop /\ [][NextLoop]_vars

-----------------------------------------------------------------------------
(* Properties of the loop over the chunks, checked under SpecLoop. *)

\* Whether detect_language was called for the k-th visited chunk, and on
\* which text.
DetectCalls(k) ==
    {c \in 1..Len(trace[k].calls) : trace[k].calls[c].fn = "detect_language"}

-----------------------------------------------------------------------------
(* Topic frequencies, checked under SpecSummary. *)

TopicFields == <<"topics", "advanced_analysis", "analysis">>

\* The topic list in field f (1, 2 or 3 of TopicFields) of a result.
FieldTopics(result, f) ==
    IF f = 1 THEN Get(result, "topics", <<>>)
    ELSE Get(Get(result, TopicFields[f], [none |-> 0]), "topics", <<>>)

\* The occurrences of topics that are counted, each a triple of result
\* index, field and position: with fallback, the advanced_analysis field of
\* a result counts only when its own topics field is absent or empty.
Occurrences(results, fallback) ==
    UNION {{<<i, f, j>> : j \in 1..Len(FieldTopics(results[i], f))} :
              <<i, f>> \in {c \in (1..Len(results)) \X (1..3) :
                               (fallback /\ c[2] = 2) =>
                                   FieldTopics(results[c[1]], 1) = <<>>}}

TopicAt(results, o) == FieldTopics(results[o[1]], o[2])[o[3]]

\* Whether occurrence o comes before occurrence q in reading order.
ReadBefore(o, q) ==
    \/ o[1] < q[1]
    \/ o[1] = q[1] /\ o[2] < q[2]
    \/ o[1] = q[1] /\ o[2] = q[2] /\ o[3] < q[3]

\* Whether common lists the topics of the occurrences occs by descending
\* frequency, ties in first-seen order, cut after TopTopics topics.
IsRanking(common, results, occs) ==
    LET topics == {TopicAt(results, o) : o \in occs}
        Of(t) == {o \in occs : TopicAt(results, o) = t}
        Frequency(t) == Cardinality(Of(t))
        SeenBefore(t, u) ==
            \E o \in Of(t) : \A q \in Of(u) : ReadBefore(o, q)
        Precedes(t, u) ==
            \/ Frequency(t) > Frequency(u)
            \/ Frequency(t) = Frequency(u) /\ SeenBefore(t, u)
    IN /\ Len(common) = Min(TopTopics, Cardinality(topics))
       /\ Elements(common) \subseteq topics
       /\ \A a, b \in 1..Len(common) : a < b => Precedes(common[a], common[b])
       /\ \A t \in topics \ Elements(common) :
             \A a \in 1..Len(common) : Precedes(common[a], t)

====
